---- MODULE Spec2Model ----
(***************************************************************************)
(* A model of exutil.py: the command registry with prefix lookup, the      *)
(* list-argument parser, the task wrapper with its output capture, the     *)
(* five task actions and the dispatch loop of __main__.                    *)
(*                                                                         *)
(* Strings are sequences of one-character strings, so that splitting and   *)
(* prefix tests are computed character by character as the code does.      *)
(* Two specifications share the variables: SpecArgs is parser.parse_args() *)
(* (lines 199-209), Spec is the dispatch loop that follows it (210-217).   *)
(***************************************************************************)
EXTENDS Integers, Sequences, FiniteSets, TLC

VARIABLES
    argv,       \* SpecArgs: the command-line occurrences not yet handled
    namespace,  \* SpecArgs: argparse's namespace (command, ignore, exercise)
    last,       \* SpecArgs: the occurrence handled last and the list it met
    opts,       \* Spec: the parsed options (verbose, ignore, timeout, command, exercise)
    fs,         \* Spec: the paths that exist in the working directory
    stream,     \* Spec: what sys.stdout and sys.stderr are bound to
    term,       \* Spec: what reached the real terminal, in order
    buf,        \* Spec: what the StringIO of capture() received
    pc,         \* the position of the process
    loop,       \* Spec: pattern index, glob result, target index, command index
    outcome,    \* Spec: how the running task function ended
    ret,        \* Spec: the value command(ex) returned to the dispatch loop
    calls,      \* Spec: the (command, target) calls made, in order
    runner,     \* Spec: the argument lists pytest.main was invoked with
    tools,      \* Spec: the external programs run, with their exit codes
    exitcode    \* the exit status of the process once it ended, else None

vars == <<argv, namespace, last, opts, fs, stream, term, buf, pc, loop,
          outcome, ret, calls, runner, tools, exitcode>>

argsVars == <<argv, namespace, last>>
runVars == <<opts, fs, stream, term, buf, loop, outcome, ret, calls, runner, tools>>

\* Python values that may be None: None, an int, a list
None == [type |-> "NoneType"]
PyInt(n) == [type |-> "int", v |-> n]
PyList(s) == [type |-> "list", v |-> s]

----------------------------------------------------------------------------
(* Python values and outcomes of a call *)

PyStr(s) == [type |-> "str", v |-> s]
PyBytes(s) == [type |-> "bytes", v |-> s]

\* a call returns a value or raises; code is the returncode of a
\* CalledProcessError or the code of a SystemExit, output is e.output
Return(v) == [kind |-> "return", value |-> v, code |-> None, output |-> None]
Raise(exc, code) == [kind |-> exc, value |-> None, code |-> code, output |-> None]
NoOutcome == [kind |-> "none", value |-> None, code |-> None, output |-> None]

\* truth value of opts.verbose (None without -v, else the count)
Truthy(v) == v # None /\ v # PyInt(0)

\* bytes.decode(): an int and None have no such attribute
decode(v) == IF v.type = "bytes" THEN Return(PyStr(v.v)) ELSE Raise("AttributeError", None)

\* ' '.join(items): every item must be a str
join(items) ==
    IF \A i \in 1..Len(items) : items[i].type = "str"
    THEN Return(PyStr(items))
    ELSE Raise("TypeError", None)

\* the status of the process after sys.exit(code)
ExitStatus(code) == IF code = None THEN PyInt(0) ELSE code

----------------------------------------------------------------------------
(* Bounds of the model *)

\* longest raw value of a list option, in characters
MaxRaw == 3
\* longest command prefix tried that is not a prefix of a registered name
MaxProbe == 2
\* number of commands on a command line
MaxCommands == 2
\* largest exit status an external program or the test runner gives
MaxStatus == 2

----------------------------------------------------------------------------
(* Strings *)

RECURSIVE Strings(_, _)
Strings(chars, n) ==
    IF n = 0 THEN {<<>>}
    ELSE LET shorter == Strings(chars, n - 1)
         IN shorter \cup {Append(s, c) : s \in shorter, c \in chars}

\* the characters of RGX_LIST = re.compile('[ ,;]')
RGX_LIST == {" ", ",", ";"}

\* str.startswith
StartsWith(name, s) ==
    /\ Len(s) <= Len(name)
    /\ SubSeq(name, 1, Len(s)) = s

\* RGX_LIST.split(value) with '[ ,;]+' in place of '[ ,;]': runs are one separator
RECURSIVE SplitRuns(_)
SplitRuns(value) ==
    IF \A i \in 1..Len(value) : value[i] \notin RGX_LIST
    THEN <<value>>
    ELSE LET k == CHOOSE i \in 1..Len(value) :
                      /\ value[i] \in RGX_LIST
                      /\ \A j \in 1..(i - 1) : value[j] \notin RGX_LIST
             m == CHOOSE i \in k..Len(value) :
                      /\ \A j \in k..i : value[j] \in RGX_LIST
                      /\ (i = Len(value) \/ value[i + 1] \notin RGX_LIST)
         IN <<SubSeq(value, 1, k - 1)>> \o SplitRuns(SubSeq(value, m + 1, Len(value)))

\* RGX_LIST.split(value): a cut at every single character of the class
RECURSIVE Split(_)
Split(value) ==
    IF \A i \in 1..Len(value) : value[i] \notin RGX_LIST
    THEN <<value>>
    ELSE LET k == CHOOSE i \in 1..Len(value) :
                      /\ value[i] \in RGX_LIST
                      /\ \A j \in 1..(i - 1) : value[j] \notin RGX_LIST
         IN <<SubSeq(value, 1, k - 1)>> \o Split(SubSeq(value, k + 1, Len(value)))

----------------------------------------------------------------------------
(* The command registry *)

migrate == <<"m", "i", "g", "r", "a", "t", "e">>
test == <<"t", "e", "s", "t">>
submit == <<"s", "u", "b", "m", "i", "t">>
restore == <<"r", "e", "s", "t", "o", "r", "e">>
checkin == <<"c", "h", "e", "c", "k", "i", "n">>

\* the order of the @cmd_mgr.register decorators in the file
Registered == <<migrate, test, submit, restore, checkin>>

Letters == <<"a", "b", "c", "e", "g", "h", "i", "k", "m", "n", "o", "r", "s", "t", "u", "z">>

Ord(c) == CHOOSE i \in 1..Len(Letters) : Letters[i] = c

\* str < str
RECURSIVE Less(_, _)
Less(a, b) ==
    IF b = <<>> THEN FALSE
    ELSE IF a = <<>> THEN TRUE
    ELSE IF a[1] # b[1] THEN Ord(a[1]) < Ord(b[1])
    ELSE Less(Tail(a), Tail(b))

\* list.sort(key=name): a stable sort; insertion after the last entry not greater
RECURSIVE Sorted(_)
Sorted(fs0) ==
    IF fs0 = <<>> THEN <<>>
    ELSE LET rest == Sorted(SubSeq(fs0, 1, Len(fs0) - 1))
             x == fs0[Len(fs0)]
             k == Cardinality({i \in 1..Len(rest) : ~Less(x, rest[i])})
         IN SubSeq(rest, 1, k) \o <<x>> \o SubSeq(rest, k + 1, Len(rest))

\* CommandManager.register
register(commands, function) == Sorted(Append(commands, function))

RECURSIVE RegisterAll(_)
RegisterAll(fns) ==
    IF fns = <<>> THEN <<>>
    ELSE register(RegisterAll(SubSeq(fns, 1, Len(fns) - 1)), fns[Len(fns)])

\* cmd_mgr.commands once the module is imported
commands == RegisterAll(Registered)

Names == {commands[i] : i \in 1..Len(commands)}

\* find_best that takes the first match when several names match
find_first(s) ==
    LET matches == SelectSeq(commands, LAMBDA c : StartsWith(c, s))
    IN IF Len(matches) >= 1
       THEN [found |-> TRUE, command |-> matches[1], exit |-> None]
       ELSE [found |-> FALSE, command |-> None, exit |-> PyInt(1)]

\* CommandManager.find_best: the command, or sys.exit(1)
find_best(s) ==
    LET matches == SelectSeq(commands, LAMBDA c : StartsWith(c, s))
    IN IF Len(matches) = 1
       THEN [found |-> TRUE, command |-> matches[1], exit |-> None]
       ELSE [found |-> FALSE, command |-> None, exit |-> PyInt(1)]

----------------------------------------------------------------------------
(* The list-argument parser: ExtendAction and CommandAction *)

\* ExtendAction.__parse__
parse_value(value) == [found |-> TRUE, command |-> value, exit |-> None]

\* CommandAction.__parse__
parse_command(value) == find_best(value)

Parse(cls, value) ==
    IF cls = "CommandAction" THEN parse_command(value) ELSE parse_value(value)

\* ExtendAction.__extend__: the namespace after it, or the exit status when
\* __parse__ ended the process (setattr is then never reached)
extend(cls, ns, dest, value) ==
    LET current == IF ns[dest] = None THEN <<>> ELSE ns[dest].v
        parsed == Split(value)
        mapped == [i \in 1..Len(parsed) |-> Parse(cls, parsed[i])]
    IN IF \E i \in 1..Len(parsed) : ~mapped[i].found
       THEN [ns |-> ns, exit |-> PyInt(1)]
       ELSE [ns |-> [ns EXCEPT ![dest] =
                        PyList(current \o [i \in 1..Len(parsed) |-> mapped[i].command])],
             exit |-> None]

RECURSIVE ExtendEach(_, _, _, _)
ExtendEach(cls, ns, dest, values) ==
    IF values = <<>> THEN [ns |-> ns, exit |-> None]
    ELSE LET r == extend(cls, ns, dest, Head(values))
         IN IF r.exit # None THEN r
            ELSE ExtendEach(cls, r.ns, dest, Tail(values))

\* ExtendAction.__call__: a list of values (nargs='+') or one value
call(cls, ns, dest, isList, values) ==
    IF isList THEN ExtendEach(cls, ns, dest, values)
    ELSE extend(cls, ns, dest, values)

\* one occurrence of an option or positional on the command line
Occ(dest, isList, values) == [dest |-> dest, isList |-> isList, values |-> values]

Example == <<"a", ",", "b", " ", "c", ";", "d">>

RawValues == Strings({"a", "b"} \cup RGX_LIST, MaxRaw) \cup {Example}

TailValues == {<<"b">>, <<>>, <<"b", ",", ",", "a">>, <<"a", ";">>}

TailCommands == {<<"t">>, <<>>, <<"r", "e">>, <<"z">>}

NamePrefixes == UNION {{SubSeq(n, 1, k) : k \in 0..Len(n)} : n \in Names}

Probes == Strings({"m", "i", "t", "z", "r"}, MaxProbe)

CommandValues ==
    NamePrefixes \cup Probes \cup {Append(n, "z") : n \in Names}
    \cup {p \o <<d>> \o q : p \in Probes, d \in RGX_LIST, q \in TailCommands}

\* the command lines tried: -i may repeat, command takes one value, exercise one or more
CommandLines ==
    {<<Occ("command", FALSE, c), Occ("exercise", TRUE, <<<<"a">>>>)>> : c \in CommandValues}
    \cup {<<Occ("ignore", FALSE, r), Occ("ignore", FALSE, t), Occ("command", FALSE, test),
            Occ("exercise", TRUE, <<t, r>>)>> : r \in RawValues, t \in TailValues}

\* the dispatch loop's variables before parse_args() has returned
Idle ==
    /\ opts = None
    /\ fs = {}
    /\ stream = "tty"
    /\ term = <<>>
    /\ buf = <<>>
    /\ loop = None
    /\ outcome = NoOutcome
    /\ ret = None
    /\ calls = <<>>
    /\ runner = <<>>
    /\ tools = <<>>

\* parser.parse_args() starts: the defaults of the add_argument calls
InitArgs ==
    /\ argv \in CommandLines
    /\ namespace = [command |-> None, ignore |-> PyList(<<>>), exercise |-> None]
    /\ last = None
    /\ pc = "parsing"
    /\ exitcode = None
    /\ Idle

Handle(cls) ==
    LET occ == Head(argv)
        r == call(cls, namespace, occ.dest, occ.isList, occ.values)
    IN /\ last' = [dest |-> occ.dest, before |-> namespace[occ.dest],
                   isList |-> occ.isList, values |-> occ.values]
       /\ argv' = Tail(argv)
       /\ namespace' = r.ns
       /\ exitcode' = r.exit
       /\ pc' = IF r.exit # None THEN "exited" ELSE "parsing"
       /\ UNCHANGED runVars

\* -i/--ignore, action=ExtendAction
IgnoreOption ==
    /\ pc = "parsing" /\ argv # <<>> /\ Head(argv).dest = "ignore"
    /\ Handle("ExtendAction")

\* command, action=CommandAction
CommandPositional ==
    /\ pc = "parsing" /\ argv # <<>> /\ Head(argv).dest = "command"
    /\ Handle("CommandAction")

\* exercise, action=ExtendAction, nargs='+'
ExercisePositional ==
    /\ pc = "parsing" /\ argv # <<>> /\ Head(argv).dest = "exercise"
    /\ Handle("ExtendAction")

\* opts = parser.parse_args()
Parsed ==
    /\ pc = "parsing" /\ argv = <<>>
    /\ pc' = "parsed"
    /\ UNCHANGED <<argsVars, runVars, exitcode>>

NextArgs == IgnoreOption \/ CommandPositional \/ ExercisePositional \/ Parsed

SpecArgs == InitArgs /\ [][NextArgs]_vars

----------------------------------------------------------------------------
(* The working directory *)

NoFile == [base |-> <<>>, ext |-> ""]
Path(dir, file) == [dir |-> dir, file |-> file]

\* exercise.replace('-', '_')
replace(exercise) ==
    [i \in 1..Len(exercise) |-> IF exercise[i] = "-" THEN "_" ELSE exercise[i]]

\* '{}-2'.format(exercise)
src_dir(exercise) == exercise \o <<"-", "2">>

solution_json == [base |-> <<>>, ext |-> ".solution.json"]
readme_md == [base |-> <<>>, ext |-> "README.md"]
test_py(exercise) == [base |-> replace(exercise), ext |-> "_test.py"]
solution_py(exercise) == [base |-> replace(exercise), ext |-> ".py"]

\* the three files migrate copies, in the order of its tuple
MigratedFiles(exercise) == <<solution_json, readme_md, test_py(exercise)>>

isdir(files, dir) == Path(dir, NoFile) \in files
isfile(files, dir, file) == file # NoFile /\ Path(dir, file) \in files

\* shutil.rmtree(dir)
rmtree(files, dir) == {q \in files : q.dir # dir}

\* the tree of an exercise: the directory, its solution and, once migrated, the rest
Tree(dir, exercise, migrated) ==
    {Path(dir, NoFile), Path(dir, solution_py(exercise))}
    \cup (IF migrated
          THEN {Path(dir, MigratedFiles(exercise)[i]) : i \in 1..3}
          ELSE {})

\* fnmatch of one path component: ? is any character, * any run of characters
RECURSIVE fnmatch(_, _)
fnmatch(name, pattern) ==
    IF pattern = <<>> THEN name = <<>>
    ELSE IF pattern[1] = "*"
         THEN fnmatch(name, Tail(pattern)) \/ (name # <<>> /\ fnmatch(Tail(name), pattern))
    ELSE IF name = <<>> THEN FALSE
    ELSE (pattern[1] = "?" \/ pattern[1] = name[1]) /\ fnmatch(Tail(name), Tail(pattern))

\* the entries of the working directory glob(pattern) gives, in some order
Matches(files, pattern) == {q.dir : q \in {x \in files : x.file = NoFile /\ fnmatch(x.dir, pattern)}}

Orderings(S) ==
    {q \in [1..Cardinality(S) -> S] : \A i, j \in 1..Cardinality(S) : i # j => q[i] # q[j]}

----------------------------------------------------------------------------
(* Output, external programs and the task functions.  A world w holds what *)
(* a task function can change: files, terminal, capture buffer, the logs.  *)

Msg(by, text) == [by |-> by, text |-> text]

\* print(): to whatever sys.stdout is bound to
print(w, to, m) ==
    IF to = "tty" THEN [w EXCEPT !.term = Append(@, m)]
    ELSE [w EXCEPT !.buf = Append(@, m)]

\* what the external program does to the files when it exits 0
Effect(files, args, env) ==
    IF args[1] = "exercism" /\ args[2] = "download"
    THEN LET ex == args[6]
         IN IF env.left2
            THEN files \cup Tree(src_dir(ex), ex, TRUE)
            ELSE files \cup Tree(ex, ex, TRUE)
    ELSE IF args[1] = "git" /\ args[2] = "checkout"
    THEN files \cup {Path(args[4].dir, NoFile), args[4]}
    ELSE files

\* sp.check_call(args, stderr=sp.STDOUT): the child inherits the descriptors of
\* the process, so what it writes reaches the terminal; 0 is returned, or
\* CalledProcessError raised with the return code and no output
check_call(w, args, env) ==
    LET w1 == [w EXCEPT !.term = IF env.says THEN Append(@, Msg("child", args[1])) ELSE @,
                        !.tools = Append(@, [args |-> args, rc |-> env.rc, left2 |-> env.left2]),
                        !.fs = IF env.rc = 0 THEN Effect(@, args, env) ELSE @]
    IN [w |-> w1,
        out |-> IF env.rc = 0 THEN Return(PyInt(0))
                ELSE Raise("CalledProcessError", PyInt(env.rc))]

\* terminal(*args)
terminal(w, to, args, env) ==
    LET w1 == print(w, to, Msg("action", "command line"))
        r == check_call(w1, args, env)
    IN IF r.out.kind # "return" THEN r
       ELSE LET d == decode(r.out.value)
            IN IF d.kind # "return" THEN [w |-> r.w, out |-> d]
               ELSE [w |-> r.w, out |-> Return(None)]

exercism(w, to, args, env) == terminal(w, to, <<"exercism">> \o args, env)

git(w, to, args, env) == terminal(w, to, <<"git">> \o args, env)

\* shutil.copy2(src, dst) for each of the three files, then the rmtree
RECURSIVE CopyFiles(_, _, _, _)
CopyFiles(w, to, exercise, names) ==
    IF names = <<>>
    THEN [w |-> [print(w, to, Msg("action", "Removing")) EXCEPT
                    !.fs = rmtree(@, src_dir(exercise))],
          out |-> Return(None)]
    ELSE LET w1 == print(w, to, Msg("action", "Copying"))
         IN IF isfile(w1.fs, src_dir(exercise), Head(names)) /\ isdir(w1.fs, exercise)
            THEN CopyFiles([w1 EXCEPT !.fs = @ \cup {Path(exercise, Head(names))}],
                           to, exercise, Tail(names))
            ELSE [w |-> w1, out |-> Raise("FileNotFoundError", None)]

\* os.path.isfile(os.path.join(exercise, '.solution.json')) always false
never_migrated(files, exercise) == FALSE

\* os.path.isfile(os.path.join(exercise, '.solution.json'))
already_migrated(files, exercise) == isfile(files, exercise, solution_json)

\* migrate(exercise)
migrate_body(w, to, exercise, env, env2) ==
    IF already_migrated(w.fs, exercise)
    THEN [w |-> print(w, to, Msg("action", "already migrated")), out |-> Return(None)]
    ELSE LET r == exercism(w, to, <<"download", "-t", "python", "-e", exercise>>, env)
         IN IF r.out.kind # "return" THEN r
            ELSE IF ~isdir(r.w.fs, src_dir(exercise))
            THEN git(print(r.w, to, Msg("action", "Restoring")), to,
                     <<"checkout", "--", Path(exercise, solution_py(exercise))>>, env2)
            ELSE CopyFiles(r.w, to, exercise, MigratedFiles(exercise))

\* test(exercise); run is what pytest.main(args) does: a status or SystemExit
test_body(w, to, exercise, timeout, run) ==
    LET args == <<PyStr("-x"), PyStr(exercise)>>
                \o (IF timeout # None THEN <<PyStr("--timeout"), timeout>> ELSE <<>>)
        line == join(<<PyStr("pytest")>> \o args)
    IN IF line.kind # "return" THEN [w |-> w, out |-> line]
       ELSE LET w1 == print(w, to, Msg("action", "pytest"))
                w2 == print([w1 EXCEPT !.runner = Append(@, args)], to,
                            Msg("action", "test session"))
            IN [w |-> w2, out |-> run]

\* submit(exercise)
submit_body(w, to, exercise, env) ==
    exercism(w, to, <<"submit", Path(exercise, solution_py(exercise))>>, env)

\* restore(exercise)
restore_body(w, to, exercise, env) ==
    LET w1 == print(w, to, Msg("action", "Removing"))
        w2 == [w1 EXCEPT !.fs = rmtree(@, exercise)]
    IN git(w2, to, <<"checkout", "--", Path(exercise, NoFile)>>, env)

\* checkin(exercise)
checkin_body(w, to, exercise, env) ==
    git(w, to, <<"add", exercise>>, env)

----------------------------------------------------------------------------
(* The task wrapper and the dispatch loop *)

leap == <<"l", "e", "a", "p">>
two_fer == <<"t", "w", "o", "-", "f", "e", "r">>

\* the exercise arguments tried: names and patterns, some matching twice or nothing
PatternLists ==
    {<< <<"*">> >>, <<leap>>, <<leap, two_fer>>, <<two_fer, leap>>,
     << <<"l", "?", "?", "?">>, <<"*">> >>, << <<"z">>, <<"t", "*">> >>}

IgnoreLists == {<<>>, <<leap>>, <<two_fer>>}

CommandLists == {q \in Strings(Names, MaxCommands) : q # <<>>}

\* the working directories tried: leap is there, two-fer may be; each migrated or not
Directories ==
    {Tree(leap, leap, m) : m \in BOOLEAN}
    \cup {Tree(leap, leap, m) \cup Tree(two_fer, two_fer, n) : m, n \in BOOLEAN}

\* how an external program may behave: exit status, whether it writes output,
\* whether a download leaves its files in <exercise>-2
Envs == [rc : 0..MaxStatus, says : BOOLEAN, left2 : BOOLEAN]

\* how pytest.main may end: a status, or SystemExit (a conftest calling sys.exit)
Runs ==
    {Return(PyInt(n)) : n \in 0..MaxStatus}
    \cup {Raise("SystemExit", PyInt(n)) : n \in 0..MaxStatus}

\* the state when parse_args() has returned (line 209)
Init ==
    /\ opts \in [verbose : {None, PyInt(1)}, timeout : {None, PyInt(1)},
                 ignore : IgnoreLists, command : CommandLists, exercise : PatternLists]
    /\ fs \in Directories
    /\ stream = "tty"
    /\ term = <<>>
    /\ buf = <<>>
    /\ pc = "loop"
    /\ loop = [p |-> 0, targets |-> <<>>, t |-> 1, c |-> 1, seen |-> <<>>]
    /\ outcome = NoOutcome
    /\ ret = None
    /\ calls = <<>>
    /\ runner = <<>>
    /\ tools = <<>>
    /\ exitcode = None
    /\ argv = <<>>
    /\ namespace = [command |-> PyList(opts.command), ignore |-> PyList(opts.ignore),
                    exercise |-> PyList(opts.exercise)]
    /\ last = None

Cmd == opts.command[loop.c]
Target == loop.targets[loop.t]

World == [fs |-> fs, term |-> term, buf |-> buf, tools |-> tools, runner |-> runner]

\* the task function ended: its effects, its outcome, and on to the end of the
\* with block (or straight to the handlers in verbose mode)
Ended(r) ==
    /\ fs' = r.w.fs
    /\ term' = r.w.term
    /\ buf' = r.w.buf
    /\ tools' = r.w.tools
    /\ runner' = r.w.runner
    /\ outcome' = r.out
    /\ pc' = IF Truthy(opts.verbose) THEN "after" ELSE "finally"
    /\ UNCHANGED <<argsVars, opts, stream, loop, ret, calls, exitcode>>

\* ex in opts.ignore, dropped
not_ignored(ex, ignore) == FALSE

\* ex in opts.ignore
ignored(ex, ignore) == \E i \in 1..Len(ignore) : ignore[i] = ex

\* for pattern in opts.exercise: for ex in glob(pattern)
NextPattern ==
    /\ pc = "loop"
    /\ loop.t > Len(loop.targets)
    /\ loop.p < Len(opts.exercise)
    /\ \E found \in Orderings(Matches(fs, opts.exercise[loop.p + 1])) :
          loop' = [loop EXCEPT !.p = @ + 1, !.targets = found, !.t = 1, !.c = 1,
                               !.seen = @ \o found]
    /\ UNCHANGED <<argsVars, opts, fs, stream, term, buf, pc, outcome, ret, calls,
                   runner, tools, exitcode>>

\* if ex in opts.ignore: continue
SkipIgnored ==
    /\ pc = "loop"
    /\ loop.t <= Len(loop.targets)
    /\ ignored(Target, opts.ignore)
    /\ loop' = [loop EXCEPT !.t = @ + 1, !.c = 1]
    /\ UNCHANGED <<argsVars, opts, fs, stream, term, buf, pc, outcome, ret, calls,
                   runner, tools, exitcode>>

\* command(ex): _wrapper prints the title and, unless verbose, enters capture()
Call ==
    /\ pc = "loop"
    /\ loop.t <= Len(loop.targets)
    /\ ~ignored(Target, opts.ignore)
    /\ calls' = Append(calls, <<Cmd, Target>>)
    /\ IF Truthy(opts.verbose)
       THEN /\ term' = term \o <<Msg("wrapper", "title"), Msg("wrapper", "newline")>>
            /\ UNCHANGED <<stream, buf>>
       ELSE /\ term' = Append(term, Msg("wrapper", "title"))
            /\ stream' = "buf"
            /\ buf' = <<>>
    /\ pc' = "body"
    /\ outcome' = NoOutcome
    /\ UNCHANGED <<argsVars, opts, fs, loop, ret, runner, tools, exitcode>>

Migrate ==
    /\ pc = "body" /\ Cmd = migrate
    /\ \E env \in Envs :
          \* a second program (git checkout) can only follow a download that exited 0
          \E env2 \in {e \in Envs : ~e.left2 /\ (env.rc # 0 => e = [env EXCEPT !.left2 = FALSE])} :
             Ended(migrate_body(World, stream, Target, env, env2))

Test ==
    /\ pc = "body" /\ Cmd = test
    /\ \E run \in Runs : Ended(test_body(World, stream, Target, opts.timeout, run))

Submit ==
    /\ pc = "body" /\ Cmd = submit
    /\ \E env \in {e \in Envs : ~e.left2} : Ended(submit_body(World, stream, Target, env))

Restore ==
    /\ pc = "body" /\ Cmd = restore
    /\ \E env \in {e \in Envs : ~e.left2} : Ended(restore_body(World, stream, Target, env))

Checkin ==
    /\ pc = "body" /\ Cmd = checkin
    /\ \E env \in {e \in Envs : ~e.left2} : Ended(checkin_body(World, stream, Target, env))

\* capture() without try/finally: the streams come back on a normal return only
capture_no_finally(old, out) == IF out.kind = "return" THEN old ELSE "buf"

\* capture(): the finally clause puts oldout and olderr back on every exit path
capture_exit(old, out) == old

\* the with block of _wrapper is left
Capture ==
    /\ pc = "finally"
    /\ stream' = capture_exit("tty", outcome)
    /\ pc' = "after"
    /\ UNCHANGED <<argsVars, opts, fs, term, buf, loop, outcome, ret, calls, runner,
                   tools, exitcode>>

\* an exception nothing catches: the traceback goes to sys.stderr, the status is 1
Uncaught(w, to, exc) ==
    [w |-> print(w, to, Msg("python", exc)), exit |-> PyInt(1), ret |-> None]

\* _wrapper after the call of the task function: Done, or the except clauses
wrapper_end(w, to, out) ==
    IF out.kind = "return"
    THEN [w |-> print(w, to, Msg("wrapper", "Done")), exit |-> None, ret |-> None]
    ELSE IF out.kind = "CalledProcessError"
    THEN LET d == decode(out.output)
         IN IF d.kind # "return" THEN Uncaught(w, to, d.kind)
            ELSE [w |-> print(w, to, Msg("wrapper", "output")),
                  exit |-> ExitStatus(out.code), ret |-> None]
    ELSE IF out.kind = "SystemExit"
    THEN [w |-> print(w, to, Msg("wrapper", "Failed")),
          exit |-> ExitStatus(out.code), ret |-> None]
    ELSE Uncaught(w, to, out.kind)

Wrapper ==
    /\ pc = "after"
    /\ LET r == wrapper_end(World, stream, outcome)
       IN /\ term' = r.w.term
          /\ buf' = r.w.buf
          /\ exitcode' = r.exit
          /\ ret' = r.ret
          /\ pc' = IF r.exit # None THEN "exited" ELSE "returned"
    /\ UNCHANGED <<argsVars, opts, fs, stream, loop, outcome, calls, runner, tools>>

\* ret = command(ex); if ret not in {None, 0}: sys.exit(ret)
CheckRet ==
    /\ pc = "returned"
    /\ IF ret \notin {None, PyInt(0)}
       THEN /\ pc' = "exited"
            /\ exitcode' = ExitStatus(ret)
            /\ UNCHANGED loop
       ELSE /\ pc' = "loop"
            /\ loop' = IF loop.c < Len(opts.command)
                       THEN [loop EXCEPT !.c = @ + 1]
                       ELSE [loop EXCEPT !.t = @ + 1, !.c = 1]
            /\ UNCHANGED exitcode
    /\ UNCHANGED <<argsVars, opts, fs, stream, term, buf, outcome, ret, calls, runner, tools>>

\* the loops are over: the interpreter exits with status 0
Finished ==
    /\ pc = "loop"
    /\ loop.t > Len(loop.targets)
    /\ loop.p >= Len(opts.exercise)
    /\ pc' = "done"
    /\ exitcode' = PyInt(0)
    /\ UNCHANGED <<argsVars, runVars>>

Next ==
    \/ NextPattern \/ SkipIgnored \/ Call
    \/ Migrate \/ Test \/ Submit \/ Restore \/ Checkin
    \/ Capture \/ Wrapper \/ CheckRet \/ Finished

Spec == Init /\ [][Next]_vars

----------------------------------------------------------------------------
(* Properties of the parser *)

\* the values the occurrence handled last added to its option
Added ==
    LET now == namespace[last.dest].v
        was == IF last.before = None THEN <<>> ELSE last.before.v
    IN SubSeq(now, Len(was) + 1, Len(now))

IsPrefixOf(p, name) == \E k \in 0..Len(name) : p = SubSeq(name, 1, k)

NoDelimiter(s) == \A i \in 1..Len(s) : s[i] \notin RGX_LIST

\* C3: for the registry of migrate, test, submit, restore and checkin and a
\* prefix p given as the command: the command resolved is c exactly when c is
\* the only registered name that starts with p; when no name or several names
\* start with p nothing is resolved and the process ends with status 1.
\* "mi" and "m" give migrate, "zz" fails.
C3_UniquePrefix ==
    (last # None /\ last.dest = "command" /\ NoDelimiter(last.values)) =>
        LET p == last.values
            M == {c \in {migrate, test, submit, restore, checkin} : IsPrefixOf(p, c)}
        IN /\ \A c \in Names :
                  (exitcode = None /\ namespace.command = PyList(<<c>>)) <=> (M = {c})
           /\ Cardinality(M) # 1 =>
                  (exitcode = PyInt(1) /\ pc = "exited" /\ namespace.command = None)
           /\ p \in {<<"m", "i">>, <<"m">>} => namespace.command = PyList(<<migrate>>)
           /\ p = <<"z", "z">> => exitcode = PyInt(1)

C3_Witness ==
    /\ last # None /\ last.dest = "command" /\ last.values = <<"m", "i">>
    /\ namespace.command = PyList(<<migrate>>)
    /\ exitcode = None

RECURSIVE Offset(_, _)
\* where piece i starts in the raw value when one delimiter follows each piece
Offset(pieces, i) ==
    IF i = 1 THEN 0 ELSE Offset(pieces, i - 1) + Len(pieces[i - 1]) + 1

\* raw is pieces[1] d1 pieces[2] d2 ... pieces[n], every d a delimiter and no
\* piece holding one
IsCutOf(pieces, raw) ==
    /\ Len(pieces) >= 1
    /\ Offset(pieces, Len(pieces) + 1) - 1 = Len(raw)
    /\ \A i \in 1..Len(pieces) :
          /\ NoDelimiter(pieces[i])
          /\ SubSeq(raw, Offset(pieces, i) + 1, Offset(pieces, i) + Len(pieces[i])) = pieces[i]
          /\ i > 1 => raw[Offset(pieces, i)] \in RGX_LIST

RECURSIVE AreCutsOf(_, _)
AreCutsOf(added, raws) ==
    IF raws = <<>> THEN added = <<>>
    ELSE \E k \in 1..Len(added) :
            /\ IsCutOf(SubSeq(added, 1, k), Head(raws))
            /\ AreCutsOf(SubSeq(added, k + 1, Len(added)), Tail(raws))

\* the maximal delimiter-free substrings of raw, in order
TokensOf(raw) ==
    LET S == {i \in 1..Len(raw) :
                 raw[i] \notin RGX_LIST /\ (i = 1 \/ raw[i - 1] \in RGX_LIST)}
        nth(k) == CHOOSE i \in S : Cardinality({j \in S : j < i}) = k - 1
        end(i) == CHOOSE j \in i..Len(raw) :
                      /\ \A k \in i..j : raw[k] \notin RGX_LIST
                      /\ (j = Len(raw) \/ raw[j + 1] \in RGX_LIST)
    IN [k \in 1..Cardinality(S) |-> SubSeq(raw, nth(k), end(nth(k)))]

\* non-empty tokens separated by non-empty runs of delimiters
TokenShaped(raw) ==
    /\ raw # <<>>
    /\ raw[1] \notin RGX_LIST
    /\ raw[Len(raw)] \notin RGX_LIST

SingleDelimiters(raw) ==
    \A i \in 1..(Len(raw) - 1) : ~(raw[i] \in RGX_LIST /\ raw[i + 1] \in RGX_LIST)

ExtendedOne ==
    /\ last # None /\ last.dest = "ignore" /\ ~last.isList
    /\ exitcode = None

\* C4 as claimed: a raw value of non-empty tokens t1..tn separated by runs of
\* one or more delimiters appends exactly [t1, ..., tn], with no empty string.
C4_RunsAreOneSeparator ==
    (ExtendedOne /\ TokenShaped(last.values)) =>
        /\ Added = TokensOf(last.values)
        /\ \A i \in 1..Len(Added) : Added[i] # <<>>

\* C4 as amended: the raw value is cut at every single space, comma or
\* semicolon, so the values appended, joined by the delimiters in between,
\* give back the raw value; what the option held before is kept in front;
\* tokens separated by exactly one delimiter each are appended as
\* [t1, ..., tn] with no empty string, and "a,b c;d" gives [a, b, c, d].
C4_CutAtEveryDelimiter ==
    (last # None /\ last.dest \in {"ignore", "exercise"}) =>
        /\ exitcode = None
        /\ last.before # None =>
              SubSeq(namespace[last.dest].v, 1, Len(last.before.v)) = last.before.v
        /\ AreCutsOf(Added, IF last.isList THEN last.values ELSE <<last.values>>)
        /\ (~last.isList /\ TokenShaped(last.values) /\ SingleDelimiters(last.values)) =>
              /\ Added = TokensOf(last.values)
              /\ \A i \in 1..Len(Added) : Added[i] # <<>>
        /\ (~last.isList /\ last.values = Example) =>
              Added = << <<"a">>, <<"b">>, <<"c">>, <<"d">> >>

C4_Witness ==
    /\ ExtendedOne /\ last.values = Example
    /\ namespace.ignore = PyList(<< <<"a">>, <<"b">>, <<"c">>, <<"d">> >>)

----------------------------------------------------------------------------
(* Properties of the task wrapper and the dispatch loop *)

Last(q) == q[Len(q)]

InIgnore(ex) == ex \in {opts.ignore[j] : j \in 1..Len(opts.ignore)}

\* C1: once a command run on a target has produced a result that is neither
\* None nor 0 (the test action returning the runner's non-zero status), the
\* process ends at once with that result as its exit code: it is either still
\* leaving that call or has exited with that status, and never goes on to a
\* later (target, command) pair or to a normal end.
C1_BadResultEndsProcess ==
    (outcome.kind = "return" /\ outcome.value \notin {None, PyInt(0)}) =>
        \/ pc \in {"finally", "after", "returned"}
        \/ pc = "exited" /\ exitcode = outcome.value

\* C2: when the external program a task runs exits with a code c other than 0,
\* the wrapper prints the captured output of that program and the process ends
\* with exit code exactly c.
C2_SubprocessExitCode ==
    (pc = "exited" /\ outcome.kind = "CalledProcessError") =>
        /\ exitcode = outcome.code
        /\ Last(term) = Msg("wrapper", "output")

RECURSIVE Expected(_)
\* the calls a list of produced targets asks for, target by target
Expected(targets) ==
    IF targets = <<>> THEN <<>>
    ELSE (IF InIgnore(Head(targets)) THEN <<>>
          ELSE [i \in 1..Len(opts.command) |-> <<opts.command[i], Head(targets)>>])
         \o Expected(Tail(targets))

Count(q, x) == Cardinality({i \in 1..Len(q) : q[i] = x})

\* C5: the calls are made in target-major order: the targets in the order the
\* patterns produce them, and for each target not ignored every command of the
\* command line in its order; when no call fails each such target gets every
\* command once per time a pattern produced it, and no command is ever called
\* on an ignored target.
C5_TargetMajorOrder ==
    /\ Len(calls) <= Len(Expected(loop.seen))
    /\ calls = SubSeq(Expected(loop.seen), 1, Len(calls))
    /\ \A i \in 1..Len(calls) : ~InIgnore(calls[i][2])
    /\ pc = "done" =>
          /\ calls = Expected(loop.seen)
          /\ \A ex \in {leap, two_fer} :
                Count(loop.seen, ex) =
                    Cardinality({k \in 1..Len(opts.exercise) :
                                    ex \in Matches(fs, opts.exercise[k])})

C5_Witness ==
    /\ pc = "done"
    /\ opts.ignore # <<>>
    /\ Len(calls) = 4
    /\ calls[1][1] # calls[2][1]
    /\ calls[3] = <<calls[1][1], calls[1][2]>>
    /\ calls[4] = <<calls[2][1], calls[2][2]>>

\* C6: when migrate ran the download with .solution.json absent, the download
\* exited 0 and left an <exercise>-2 directory, then after the call the three
\* files .solution.json, README.md and <name>_test.py are in <exercise> and
\* <exercise>-2 does not exist.
C6_MigrateCopiesAndRemoves ==
    \A i \in 1..Len(tools) :
        (/\ pc # "body"
         /\ tools[i].args[1] = "exercism" /\ tools[i].args[2] = "download"
         /\ tools[i].rc = 0 /\ tools[i].left2) =>
            LET ex == tools[i].args[6]
            IN /\ ~isdir(fs, src_dir(ex))
               /\ \A k \in 1..3 : isfile(fs, ex, MigratedFiles(ex)[k])

\* C7: every call of test invokes pytest.main exactly once, with -x <exercise>
\* when no timeout is configured and with -x <exercise> --timeout <value> when
\* one is.
C7_RunnerInvokedOnce ==
    pc # "body" =>
        LET tests == SelectSeq(calls, LAMBDA c : c[1] = test)
        IN /\ Len(runner) = Len(tests)
           /\ \A i \in 1..Len(runner) :
                 runner[i] = <<PyStr("-x"), PyStr(tests[i][2])>>
                             \o (IF opts.timeout = None THEN <<>>
                                 ELSE <<PyStr("--timeout"), opts.timeout>>)

\* C8: without -v nothing a task action writes, by its own prints or through
\* the external programs it runs, reaches the terminal; with -v all of it does.
C8_OutputSuppressed ==
    /\ ~Truthy(opts.verbose) =>
          \A i \in 1..Len(term) : term[i].by \notin {"action", "child"}
    /\ Truthy(opts.verbose) => buf = <<>>

\* C9: a call of migrate on an exercise whose .solution.json exists changes
\* nothing but the terminal: no external program is run, no file is copied, no
\* directory removed; the function returns, the wrapper prints Done and
\* returns, and the process goes on.
C9_AlreadyMigratedNoOp ==
    [][/\ (pc = "body" /\ Cmd = migrate /\ isfile(fs, Target, solution_json)) =>
             /\ fs' = fs /\ tools' = tools /\ runner' = runner
             /\ outcome' = Return(None)
             /\ exitcode' = None
       /\ (pc \in {"finally", "after"} /\ Cmd = migrate /\ outcome.kind = "return") =>
             /\ fs' = fs /\ tools' = tools /\ runner' = runner
             /\ exitcode' = None
             /\ pc = "after" => (pc' = "returned" /\ term' = Append(term, Msg("wrapper", "Done")))
      ]_vars

C9_Witness ==
    /\ pc = "returned"
    /\ Last(calls)[1] = migrate
    /\ isfile(fs, Last(calls)[2], solution_json)
    /\ tools = <<>>
    /\ Last(term) = Msg("wrapper", "Done")

====
